---------------------------- MODULE Spec2Model ----------------------------
(***************************************************************************)
(* pycsob: canonical message, signing, verification and response           *)
(* validation (pycsob/utils.py, pycsob/client.py).                         *)
(*                                                                         *)
(* Python values are tagged records: None, str, int, bool, list, dict and  *)
(* the base64 text of a signature.  An OrderedDict (and a json object, a    *)
(* dict keeps insertion order) is a sequence of <<key, value>> pairs with   *)
(* unique keys.  Text is a TLC string, so '|'.join really concatenates.     *)
(***************************************************************************)
EXTENDS Integers, Sequences, FiniteSets, TLC

(* ------------------------------------------------------------------ *)
(* bounds of the model                                                 *)
(* ------------------------------------------------------------------ *)
\* longest `extensions` array of a response
MaxExt == 2
\* longest cart of a request
MaxCart == 2
\* integers of the payloads are 0..MaxInt
MaxInt == 1

(* ------------------------------------------------------------------ *)
(* Python values                                                       *)
(* ------------------------------------------------------------------ *)
NoneV == [t |-> "none"]
StrV(s) == [t |-> "str", s |-> s]
IntV(i) == [t |-> "int", i |-> i]
BoolV(b) == [t |-> "bool", b |-> b]
ListV(items) == [t |-> "list", items |-> items]
DictV(pairs) == [t |-> "dict", pairs |-> pairs]

\* OrderedDict / dict operations on a sequence of <<key, value>> pairs
Has(d, k) == \E i \in 1..Len(d) : d[i][1] = k
Get(d, k) == d[CHOOSE i \in 1..Len(d) : d[i][1] = k][2]
GetOr(d, k, dflt) == IF Has(d, k) THEN Get(d, k) ELSE dflt
Put(d, k, v) ==
    IF Has(d, k)
    THEN [i \in 1..Len(d) |-> IF d[i][1] = k THEN <<k, v>> ELSE d[i]]
    ELSE Append(d, <<k, v>>)
Del(d, k) == SelectSeq(d, LAMBDA p : p[1] # k)
KeysOf(d) == [i \in 1..Len(d) |-> d[i][1]]
ValuesOf(d) == [i \in 1..Len(d) |-> d[i][2]]

RECURSIVE FromPairs(_)
\* OrderedDict(pairs): a repeated key keeps its first position, last value
FromPairs(pairs) ==
    IF pairs = <<>> THEN <<>>
    ELSE LET n == Len(pairs)
         IN  Put(FromPairs(SubSeq(pairs, 1, n - 1)), pairs[n][1], pairs[n][2])

\* conf.EMPTY_VALUES: None, '' and the empty sequence; 0 and False are not
\* in it (Python's `in` compares with ==)
IsEmpty(v) ==
    \/ v.t = "none"
    \/ (v.t = "str" /\ v.s = "")
    \/ (v.t = "list" /\ v.items = <<>>)

(* ------------------------------------------------------------------ *)
(* text                                                                *)
(* ------------------------------------------------------------------ *)
Digit == <<"0", "1", "2", "3", "4", "5", "6", "7", "8", "9">>

RECURSIVE NatToStr(_)
NatToStr(n) ==
    IF n < 10 THEN Digit[n + 1]
    ELSE NatToStr(n \div 10) \o Digit[(n % 10) + 1]

\* str(v) of Python
PyStr(v) ==
    CASE v.t = "str" -> v.s
      [] v.t = "int" -> IF v.i < 0 THEN "-" \o NatToStr(0 - v.i) ELSE NatToStr(v.i)
      [] v.t = "bool" -> IF v.b THEN "True" ELSE "False"
      [] v.t = "none" -> "None"
      [] v.t = "list" /\ v.items = <<>> -> "[]"

\* str.lower() on the two words str(bool) gives
PyLower(s) ==
    CASE s = "True" -> "true"
      [] s = "False" -> "false"
      [] OTHER -> s

\* str_or_jsbool without the test of the type: str(v) for every value
str_or_jsbool_str(v) == PyStr(v)

\* str_or_jsbool(v): str(v).lower() for a bool, str(v) for another value
str_or_jsbool(v) ==
    IF v.t = "bool" THEN PyLower(PyStr(v)) ELSE PyStr(v)

RECURSIVE Join(_, _)
\* sep.join(parts)
Join(sep, parts) ==
    IF parts = <<>> THEN ""
    ELSE IF Len(parts) = 1 THEN parts[1]
    ELSE parts[1] \o sep \o Join(sep, Tail(parts))

RECURSIVE Concat(_)
\* list.extend over a sequence of sequences
Concat(ss) == IF ss = <<>> THEN <<>> ELSE ss[1] \o Concat(Tail(ss))

MapStr(vs) == [i \in 1..Len(vs) |-> str_or_jsbool(vs[i])]

(* ------------------------------------------------------------------ *)
(* canonical message                                                   *)
(* ------------------------------------------------------------------ *)
\* get_joined_values walking through data instead of keys: the values in
\* the order of the caller
get_joined_values_of_data(data, keys) ==
    Join("|", MapStr(ValuesOf(SelectSeq(data,
        LAMBDA p : \E i \in 1..Len(keys) : keys[i] = p[1]))))

\* get_joined_values(data, keys)
get_joined_values(data, keys) ==
    Join("|", MapStr(ValuesOf(SelectSeq(
        [i \in 1..Len(keys) |-> <<keys[i], GetOr(data, keys[i], [t |-> "absent"])>>],
        LAMBDA p : p[2].t # "absent"))))

customer_keys == <<"name", "email", "mobilePhone">>
account_keys == <<"createdAt", "changedAt">>
login_keys == <<"auth", "authAt">>

get_customer_data_signature_message(customer_data) ==
    LET customer_msg == get_joined_values(customer_data.pairs, customer_keys)
        account_msg == get_joined_values(
            GetOr(customer_data.pairs, "account", DictV(<<>>)).pairs, account_keys)
        login_msg == get_joined_values(
            GetOr(customer_data.pairs, "login", DictV(<<>>)).pairs, login_keys)
    IN  Join("|", SelectSeq(<<customer_msg, account_msg, login_msg>>,
                            LAMBDA s : s # ""))

\* line 43: the working copy without the None fields
DropNone(payload) == SelectSeq(payload, LAMBDA p : p[2].t # "none")

\* lines 44-48 with cart_msg.extend(one.items()) flattened: the keys of the
\* items enter the join
CartStepWithKeys(payload) ==
    IF Has(payload, "cart") /\ ~IsEmpty(Get(payload, "cart"))
    THEN Put(payload, "cart",
             StrV(Join("|", Concat(
                 [i \in 1..Len(Get(payload, "cart").items) |->
                     Concat([j \in 1..Len(Get(payload, "cart").items[i]) |->
                         <<Get(payload, "cart").items[i][j][1],
                           str_or_jsbool(Get(payload, "cart").items[i][j][2])>>])]))))
    ELSE payload

\* lines 44-48: the cart replaced by the join of all values of all items
CartStep(payload) ==
    IF Has(payload, "cart") /\ ~IsEmpty(Get(payload, "cart"))
    THEN Put(payload, "cart",
             StrV(Join("|", MapStr(Concat(
                 [i \in 1..Len(Get(payload, "cart").items) |->
                     ValuesOf(Get(payload, "cart").items[i])])))))
    ELSE payload

\* lines 49-50: payload.get('customer') is None when the key is missing
CustomerStep(payload) ==
    IF ~IsEmpty(GetOr(payload, "customer", NoneV))
    THEN Put(payload, "customer",
             StrV(get_customer_data_signature_message(Get(payload, "customer"))))
    ELSE payload

\* the text of the message, before encoding
MsgText(payload) ==
    Join("|", MapStr(ValuesOf(CustomerStep(CartStep(DropNone(payload))))))

\* str.encode('utf-8'): the bytes of the text
Utf8(s) == [utf8 |-> s]

mk_msg_for_sign(payload) == Utf8(MsgText(payload))

(* ------------------------------------------------------------------ *)
(* SHA-256, RSA PKCS#1 v1.5 and base64, as the library calls behave    *)
(* ------------------------------------------------------------------ *)
\* the key material of the model: two key pairs; any other text is no key
PrivA == "PRIVATE KEY A"
PubA == "PUBLIC KEY A"
PrivB == "PRIVATE KEY B"
NotAKey == "not a key"

\* RSA.importKey(pem): the key pair a PEM text belongs to, or ValueError
ImportKey(pem) ==
    CASE pem \in {PrivA, PubA} -> [ok |-> TRUE, pair |-> "A"]
      [] pem = PrivB -> [ok |-> TRUE, pair |-> "B"]
      [] OTHER -> [ok |-> FALSE, pair |-> "none"]

\* SHA256.new(msg): the digest stands for its message (no collisions)
SHA256(msg) == [sha256 |-> msg]

\* signer.sign(h): signature bytes, as long as the modulus
RSASign(k, h) == [wellformed |-> TRUE, pair |-> k.pair, digest |-> h]

\* verifier.verify(h, raw): False for bytes of the wrong length, for another
\* key pair and for another digest; it returns, it does not raise
RSAVerify(k, h, raw) ==
    raw.wellformed /\ raw.pair = k.pair /\ raw.digest = h

\* b64encode(raw).decode(): the text of the signature
B64(raw) == [t |-> "b64", raw |-> raw]

\* b64decode(text): the bytes of a base64 text; any other text of base64
\* letters decodes to a few bytes when its length is a multiple of four and
\* is binascii.Error ("Incorrect padding") otherwise
B64Decode(text) ==
    CASE text.t = "b64" -> [ok |-> TRUE, raw |-> text.raw]
      [] text.t = "str" /\ Len(text.s) % 4 = 0 ->
            [ok |-> TRUE,
             raw |-> [wellformed |-> FALSE, pair |-> "none", digest |-> SHA256(Utf8(""))]]
      [] OTHER -> [ok |-> FALSE]

\* verify with the signature text taken for the signature bytes (b64decode
\* left out)
verify_undecoded(payload, signature, pubkey) ==
    LET k == ImportKey(pubkey)
        h == SHA256(mk_msg_for_sign(payload))
        raw == [wellformed |-> FALSE, pair |-> "none", digest |-> h]
    IN  IF ~k.ok THEN "ValueError"
        ELSE IF RSAVerify(k, h, raw) THEN "True" ELSE "False"

\* verify that checks who signed, not what was signed
verify_keyonly(payload, signature, pubkey) ==
    LET k == ImportKey(pubkey)
        dec == B64Decode(signature)
    IN  IF ~k.ok THEN "ValueError"
        ELSE IF ~dec.ok THEN "binascii.Error"
        ELSE IF RSAVerify(k, dec.raw.digest, dec.raw) THEN "True" ELSE "False"

sign(payload, key) ==
    B64(RSASign(ImportKey(key), SHA256(mk_msg_for_sign(payload))))

\* "True", "False", or the exception verify ends in: the key is imported
\* (line 36) before the signature is decoded (line 39)
verify(payload, signature, pubkey) ==
    LET msg == mk_msg_for_sign(payload)
        k == ImportKey(pubkey)
        h == SHA256(msg)
        dec == B64Decode(signature)
    IN  IF ~k.ok THEN "ValueError"
        ELSE IF ~dec.ok THEN "binascii.Error"
        ELSE IF RSAVerify(k, h, dec.raw) THEN "True" ELSE "False"

\* mk_payload that keeps the truthy values only (`if v`), so drops 0 and False
mk_payload_truthy(key, pairs) ==
    LET payload == FromPairs(SelectSeq(pairs, LAMBDA p :
                       ~IsEmpty(p[2]) /\ p[2] \notin {IntV(0), BoolV(FALSE)}))
    IN  Put(payload, "signature", sign(payload, key))

mk_payload(key, pairs) ==
    LET payload == FromPairs(SelectSeq(pairs, LAMBDA p : ~IsEmpty(p[2])))
    IN  Put(payload, "signature", sign(payload, key))

(* ------------------------------------------------------------------ *)
(* response validation                                                 *)
(* ------------------------------------------------------------------ *)
\* conf.RESPONSE_KEYS, the known response fields in their signing order
RESPONSE_KEYS ==
    <<"payId", "dttm", "resultCode", "resultMessage", "paymentStatus", "authCode">>

maskclnrp_keys == <<"extension", "dttm", "maskedCln", "expiration", "longMaskedCln">>

\* int(x) of an int or of a decimal text, which may begin with a zero;
\* ValueError for any other text
PyInt(v) ==
    IF v.t = "int" THEN [ok |-> TRUE, v |-> v]
    ELSE IF v.t = "str" /\ \E n \in 0..MaxInt, z \in {"", "0"} : z \o NatToStr(n) = v.s
    THEN [ok |-> TRUE,
          v |-> IntV(CHOOSE n \in 0..MaxInt : \E z \in {"", "0"} : z \o NatToStr(n) = v.s)]
    ELSE [ok |-> FALSE, v |-> v]

\* the projection with resultCode and paymentStatus converted by int(), as
\* gateway_return does
ProjectRetyped(data, keys) ==
    LET present == SelectSeq(keys, LAMBDA k : Has(data, k))
    IN  [i \in 1..Len(present) |->
            <<present[i],
              IF present[i] \in {"resultCode", "paymentStatus"}
              THEN PyInt(Get(data, present[i])).v ELSE Get(data, present[i])>>]

\* the projection in the order of the body (for k in data: if k in keys)
ProjectBodyOrder(data, keys) ==
    SelectSeq(data, LAMBDA p : \E i \in 1..Len(keys) : keys[i] = p[1])

\* for k in keys: if k in data: o[k] = data[k]
Project(data, keys) ==
    LET present == SelectSeq(keys, LAMBDA k : Has(data, k))
    IN  [i \in 1..Len(present) |-> <<present[i], Get(data, present[i])>>]

RECURSIVE ExtLoopLenient(_, _, _)
\* the loop that leaves out an extension that fails verification and goes on
ExtLoopLenient(exts, key, acc) ==
    IF exts = <<>> THEN [outcome |-> "ok", extensions |-> acc, calls |-> 0]
    ELSE LET one == exts[1]
             o == Project(one, maskclnrp_keys)
         IN  IF Get(one, "extension") \notin {StrV("maskClnRP"), StrV("maskCln")}
             THEN ExtLoopLenient(Tail(exts), key, acc)
             ELSE IF verify(o, Get(one, "signature"), key) = "True"
             THEN [ExtLoopLenient(Tail(exts), key, Append(acc, o)) EXCEPT !.calls = @ + 1]
             ELSE [ExtLoopLenient(Tail(exts), key, acc) EXCEPT !.calls = @ + 1]

RECURSIVE ExtLoopVerifyAll(_, _, _)
\* the loop without the test of the extension type: every element is verified
ExtLoopVerifyAll(exts, key, acc) ==
    IF exts = <<>> THEN [outcome |-> "ok", extensions |-> acc, calls |-> 0]
    ELSE LET one == exts[1]
         IN  IF ~Has(one, "signature")
             THEN [outcome |-> "KeyError", extensions |-> acc, calls |-> 0]
             ELSE LET o == Project(one, maskclnrp_keys)
                      v == verify(o, Get(one, "signature"), key)
                  IN  CASE v = "True" ->
                              [ExtLoopVerifyAll(Tail(exts), key, Append(acc, o))
                                  EXCEPT !.calls = @ + 1]
                        [] v = "False" ->
                              [outcome |-> "CsobVerifyError", extensions |-> acc,
                               calls |-> 1]
                        [] OTHER -> [outcome |-> v, extensions |-> acc, calls |-> 1]

RECURSIVE ExtLoop(_, _, _)
\* lines 103-112 over the elements still to visit, acc the entries appended
\* so far: [outcome, extensions, calls] when the loop ends or raises, calls
\* the number of calls of verify it made
ExtLoop(exts, key, acc) ==
    IF exts = <<>> THEN [outcome |-> "ok", extensions |-> acc, calls |-> 0]
    ELSE LET one == exts[1]
         IN  IF ~Has(one, "extension")
             THEN [outcome |-> "KeyError", extensions |-> acc, calls |-> 0]
             ELSE IF Get(one, "extension") \notin {StrV("maskClnRP"), StrV("maskCln")}
             THEN ExtLoop(Tail(exts), key, acc)
             ELSE IF ~Has(one, "signature")
             THEN [outcome |-> "KeyError", extensions |-> acc, calls |-> 0]
             ELSE LET o == Project(one, maskclnrp_keys)
                      v == verify(o, Get(one, "signature"), key)
                  IN  CASE v = "True" ->
                              [ExtLoop(Tail(exts), key, Append(acc, o))
                                  EXCEPT !.calls = @ + 1]
                        [] v = "False" ->
                              [outcome |-> "CsobVerifyError", extensions |-> acc,
                               calls |-> 1]
                        [] OTHER -> [outcome |-> v, extensions |-> acc, calls |-> 1]

\* what a response object is before validate_response touched it
Untouched(r) ==
    [r EXCEPT !.has_payload = FALSE, !.payload = <<>>,
              !.has_extensions = FALSE, !.extensions = <<>>]

\* n times the step "verify"
Verifies(n) == [i \in 1..n |-> "verify"]

\* lines 79-85 with json() called before raise_for_status()
FetchJsonFirst(response) ==
    IF ~response.is_json
    THEN [outcome |-> "CsobJSONDecodeError",
          message |-> "Cannot decode JSON in response", steps |-> <<"json">>]
    ELSE IF response.status >= 400 /\ response.status < 600
    THEN [outcome |-> "CsobBaseException",
          message |-> IF response.status < 500 THEN "Client Error" ELSE "Server Error",
          steps |-> <<"json", "raise_for_status">>]
    ELSE [outcome |-> "ok", message |-> "", steps |-> <<"json", "raise_for_status">>]

\* lines 79-85 without the except clause for JSONDecodeError
FetchUncaught(response) ==
    IF response.status >= 400 /\ response.status < 600
    THEN [outcome |-> "CsobBaseException",
          message |-> IF response.status < 500 THEN "Client Error" ELSE "Server Error",
          steps |-> <<"raise_for_status">>]
    ELSE IF ~response.is_json
    THEN [outcome |-> "JSONDecodeError", message |-> "Expecting value",
          steps |-> <<"raise_for_status", "json">>]
    ELSE [outcome |-> "ok", message |-> "", steps |-> <<"raise_for_status", "json">>]

\* lines 79-85: raise_for_status(), which raises HTTPError for a status
\* from 400 to 599, then json(): [outcome, message, steps], the steps being
\* the calls made on the response
Fetch(response) ==
    IF response.status >= 400 /\ response.status < 600
    THEN [outcome |-> "CsobBaseException",
          message |-> IF response.status < 500 THEN "Client Error" ELSE "Server Error",
          steps |-> <<"raise_for_status">>]
    ELSE IF ~response.is_json
    THEN [outcome |-> "CsobJSONDecodeError",
          message |-> "Cannot decode JSON in response",
          steps |-> <<"raise_for_status", "json">>]
    ELSE [outcome |-> "ok", message |-> "", steps |-> <<"raise_for_status", "json">>]

\* the text of the exception an outcome stands for (for an exception that
\* is raised by a library, its name)
MessageOf(o, where) ==
    CASE o = "ok" -> ""
      [] o = "CsobVerifyError" /\ where = "top" -> "Cannot verify response"
      [] o = "CsobVerifyError" /\ where = "extension" ->
            "Cannot verify masked card extension response"
      [] OTHER -> o

\* validate_response(response, key): [outcome, message, response, steps],
\* the response with the attributes the call has set on it, the steps being
\* the calls of raise_for_status, json and verify it made
validate_response(response, key) ==
    LET f == Fetch(response)
    IN
    IF f.outcome # "ok"
    THEN [outcome |-> f.outcome, message |-> f.message, response |-> response,
          steps |-> f.steps]
    ELSE IF ~Has(response.data, "signature")
    THEN [outcome |-> "KeyError", message |-> "signature", response |-> response,
          steps |-> f.steps]
    ELSE
    LET signature == Get(response.data, "signature")
        data == Del(response.data, "signature")
        payload == Project(data, RESPONSE_KEYS)
        v == verify(payload, signature, key)
        set == [response EXCEPT !.has_payload = TRUE, !.payload = payload,
                                !.has_extensions = TRUE, !.extensions = <<>>]
        top(o, r) == [outcome |-> o, message |-> MessageOf(o, "top"), response |-> r,
                      steps |-> f.steps \o Verifies(1)]
    IN  IF v = "False" THEN top("CsobVerifyError", response)
        ELSE IF v # "True" THEN top(v, response)
        ELSE IF ~Has(data, "extensions") THEN top("ok", set)
        ELSE LET loop == ExtLoop(Get(data, "extensions").items, key, <<>>)
             IN  [outcome |-> loop.outcome,
                  message |-> MessageOf(loop.outcome, "extension"),
                  response |-> [set EXCEPT !.extensions = loop.extensions],
                  steps |-> f.steps \o Verifies(1 + loop.calls)]

\* CsobClient.gateway_return(datadict): [outcome, value]
gateway_return(datadict, pubkey) ==
    LET present == SelectSeq(RESPONSE_KEYS, LAMBDA k : Has(datadict, k))
        retype(k) == IF k \in {"resultCode", "paymentStatus"}
                     THEN PyInt(Get(datadict, k)).v ELSE Get(datadict, k)
        o == [i \in 1..Len(present) |-> <<present[i], retype(present[i])>>]
    IN  IF \E i \in 1..Len(present) :
               /\ present[i] \in {"resultCode", "paymentStatus"}
               /\ ~PyInt(Get(datadict, present[i])).ok
        THEN [outcome |-> "ValueError", value |-> <<>>]
        ELSE IF ~Has(datadict, "signature")
        THEN [outcome |-> "KeyError", value |-> <<>>]
        ELSE LET v == verify(o, Get(datadict, "signature"), pubkey)
             IN  CASE v = "True" -> [outcome |-> "ok", value |-> o]
                   [] v = "False" -> [outcome |-> "CsobVerifyError", value |-> <<>>]
                   [] OTHER -> [outcome |-> v, value |-> <<>>]

(* ------------------------------------------------------------------ *)
(* the inputs of the model                                             *)
(* ------------------------------------------------------------------ *)
SeqsUpTo(S, n) == UNION {[1..k -> S] : k \in 0..n}

Reverse(d) == [i \in 1..Len(d) |-> d[Len(d) + 1 - i]]

\* a cart line item: name, quantity, amount
Item(name, quantity, amount) ==
    << <<"name", StrV(name)>>, <<"quantity", IntV(quantity)>>, <<"amount", IntV(amount)>> >>

\* two items of integers and one that holds a bool
Items ==
    { Item("book", 1, 0), Item("post", MaxInt, 1),
      << <<"name", StrV("gift")>>, <<"quantity", BoolV(TRUE)>>, <<"amount", IntV(0)>> >> }

Carts == {NoneV} \cup {ListV(c) : c \in SeqsUpTo(Items, MaxCart)}

Customers ==
    { NoneV,
      DictV(<< <<"name", StrV("Jiri Novak")>>, <<"email", StrV("j@novak.cz")>>,
               <<"mobilePhone", StrV("+420.602123123")>> >>),
      DictV(<< <<"mobilePhone", StrV("+420.602123123")>>, <<"name", StrV("Jiri Novak")>>,
               <<"login", DictV(<< <<"authAt", StrV("2024")>>, <<"auth", StrV("guest")>> >>)>>,
               <<"account", DictV(<< <<"createdAt", StrV("2023")>> >>)>> >>),
      \* no field of its own, and bools in the sub-objects
      DictV(<< <<"login", DictV(<< <<"auth", BoolV(TRUE)>> >>)>>,
               <<"account", DictV(<< <<"changedAt", BoolV(FALSE)>>,
                                     <<"createdAt", StrV("2023")>> >>)>> >>),
      \* a bool of its own
      DictV(<< <<"email", StrV("j@novak.cz")>>, <<"name", BoolV(FALSE)>> >>) }

\* the pairs of a request, in the order of payment_init (a text outside
\* ASCII is written with its code points spelled out)
RequestPairs ==
    { << <<"merchantId", StrV("MERCHANT")>>, <<"totalAmount", IntV(a)>>,
         <<"closePayment", BoolV(b)>>, <<"cart", c>>, <<"customer", cu>>,
         <<"merchantData", d>> >> :
      a \in 0..MaxInt, b \in BOOLEAN, c \in Carts, cu \in Customers,
      d \in {StrV(""), StrV("k<U+016F><U+0148>")} }

\* the pairs the gateway signs for a response, as the tests build them
ResponsePairs ==
    { << <<"payId", StrV("34ae55eb69e2cBF")>>, <<"dttm", StrV("20240101120000")>>,
         <<"resultCode", rc>>, <<"resultMessage", rm>>, <<"paymentStatus", ps>> >> :
      rc \in {IntV(i) : i \in 0..MaxInt} \cup {StrV("0")},
      rm \in {StrV("OK"), NoneV},
      ps \in {IntV(1), StrV("1"), NoneV} }

IsResponse(ps) == ps # <<>> /\ ps[1][1] = "payId"

\* signer's private key and verifier's public key: a matching pair, another
\* signer, and a verifier configured with text that is no key
KeyConfigs == {<<PrivA, PubA>>, <<PrivB, PubA>>, <<PrivA, NotAKey>>}

\* values a field is replaced by after signing
Replacements(k) ==
    CASE k = "cart" -> {ListV(<<>>), ListV(<<Item("book", 1, 0)>>)}
      [] k = "customer" -> Customers \ {NoneV}
      [] OTHER -> {IntV(0), StrV("0"), BoolV(TRUE), StrV("true"), StrV(""), NoneV}

\* the (payload, signature) pairs verify is called with for an envelope:
\* unchanged, a signature that is no base64 or too short, one field replaced
VerifyInputs(env) ==
    LET P == Del(env, "signature")
        sig == Get(env, "signature")
    IN  {<<P, sig>>, <<P, StrV("abc")>>, <<P, StrV("abcd")>>}
        \cup UNION {{<<[P EXCEPT ![i] = <<P[i][1], w>>], sig>> :
                        w \in Replacements(P[i][1])} : i \in 1..Len(P)}

\* the retyped value of a field: an int as its decimal text and back
Retyped(v) == IF v.t = "int" THEN StrV(PyStr(v)) ELSE PyInt(v).v
\* another value of the same type
Other(v) == IF v.t = "int" THEN IntV((v.i + 1) % (MaxInt + 1)) ELSE StrV(v.s \o "1")

Tampers ==
    {"asis", "reversed", "unknown_field", "tampered_code", "retyped", "empty_field",
     "no_signature", "bad_base64", "short_signature", "non_numeric"}

\* the body the transport delivers for a signed envelope
BodyOf(env, tamper) ==
    CASE tamper = "asis" -> env
      [] tamper = "reversed" -> Reverse(env)
      [] tamper = "unknown_field" -> << <<"foo", StrV("x")>> >> \o env
      [] tamper = "tampered_code" -> Put(env, "resultCode", Other(Get(env, "resultCode")))
      [] tamper = "retyped" -> Put(env, "resultCode", Retyped(Get(env, "resultCode")))
      [] tamper = "empty_field" -> Put(env, "authCode", StrV(""))
      [] tamper = "no_signature" -> Del(env, "signature")
      [] tamper = "bad_base64" -> Put(env, "signature", StrV("abc"))
      [] tamper = "short_signature" -> Put(env, "signature", StrV("abcd"))
      [] tamper = "non_numeric" -> Put(env, "resultCode", StrV("x"))

ExtPairs(tag) ==
    << <<"extension", StrV(tag)>>, <<"dttm", StrV("20240101120000")>>,
       <<"maskedCln", StrV("****1234")>>, <<"expiration", StrV("12/20")>>,
       <<"longMaskedCln", StrV("PPPPPP****XXXX")>> >>

ExtKinds == {"maskCln", "maskClnRP", "forged", "unknown"}

\* one element of `extensions`, signed by the gateway's key k
ExtElem(kind, k) ==
    CASE kind = "maskCln" -> mk_payload(k, ExtPairs("maskCln"))
      \* signed without expiration, delivered in another order with a field
      \* outside the signed subset
      [] kind = "maskClnRP" ->
            Reverse(mk_payload(k, Del(ExtPairs("maskClnRP"), "expiration")))
                \o << <<"foo", StrV("x")>> >>
      [] kind = "forged" ->
            Put(mk_payload(k, ExtPairs("maskCln")), "maskedCln", StrV("****9999"))
      \* another extension type, which carries no signature
      [] kind = "unknown" -> ExtPairs("other")

ExtChoices == {<<"absent">>} \cup {<<"present", x>> : x \in SeqsUpTo(ExtKinds, MaxExt)}

WithExtensions(body, choice, k) ==
    IF choice[1] = "absent" THEN body
    ELSE Put(body, "extensions",
             ListV([i \in 1..Len(choice[2]) |-> ExtElem(choice[2][i], k)]))

\* statuses other than 200 a response arrives with: one that is neither
\* 2xx nor an error for raise_for_status, a client error, a server error
OtherStatuses == {300, 404, 500}

NoResponse ==
    [status |-> 0, is_json |-> FALSE, data |-> <<>>,
     has_payload |-> FALSE, payload |-> <<>>,
     has_extensions |-> FALSE, extensions |-> <<>>]

(* ------------------------------------------------------------------ *)
(* the state machine                                                   *)
(* ------------------------------------------------------------------ *)
VARIABLES
    pc,         \* "idle", "signed", "verified", "received", "failed", "validated",
                \* "returned"
    key,        \* the private key mk_payload signs with
    pubkey,     \* the key material verify is given
    pairs,      \* the pairs given to mk_payload
    envelope,   \* what mk_payload returned
    vcall,      \* a call of verify: payload, signature, message, result
    response,   \* the HTTP response object and the attributes set on it
    outcome,    \* how validate_response ended: "ok" or the exception
    datadict,   \* the mapping given to gateway_return
    ret,        \* how gateway_return ended, and what it returned
    message,    \* the text of the exception a client call ended with
    log         \* the steps of a client call: "request", then the calls
                \* validate_response made

vars == <<pc, key, pubkey, pairs, envelope, vcall, response, outcome, datadict, ret,
          message, log>>

Init ==
    /\ pc = "idle"
    /\ \E kc \in KeyConfigs : key = kc[1] /\ pubkey = kc[2]
    /\ pairs = <<>>
    /\ envelope = <<>>
    /\ vcall = [payload |-> <<>>, signature |-> NoneV, msg |-> Utf8(""), result |-> "none"]
    /\ response = NoResponse
    /\ outcome = "none"
    /\ datadict = <<>>
    /\ ret = [outcome |-> "none", value |-> <<>>]
    /\ message = ""
    /\ log = <<>>

\* utils.mk_payload(key, pairs)
MkPayload ==
    /\ pc = "idle"
    /\ \E ps \in RequestPairs \cup ResponsePairs :
          /\ pairs' = ps
          /\ envelope' = mk_payload(key, ps)
    /\ pc' = "signed"
    /\ UNCHANGED <<key, pubkey, vcall, response, outcome, datadict, ret, message, log>>

\* utils.verify(payload, signature, pubkey)
Verify ==
    /\ pc = "signed"
    /\ \E in \in VerifyInputs(envelope) :
          vcall' = [payload |-> in[1], signature |-> in[2],
                    msg |-> mk_msg_for_sign(in[1]),
                    result |-> verify(in[1], in[2], pubkey)]
    /\ pc' = "verified"
    /\ UNCHANGED <<key, pubkey, pairs, envelope, response, outcome, datadict, ret,
                    message, log>>

\* HTTPAdapter.send returns: the one request of a client call was answered,
\* with a signed body, with a body that is no json, or with another status
\* and either body
Receive ==
    /\ pc = "signed"
    /\ IsResponse(pairs)
    /\ \/ \E t \in Tampers, x \in ExtChoices :
             response' = [NoResponse EXCEPT !.status = 200, !.is_json = TRUE,
                             !.data = WithExtensions(BodyOf(envelope, t), x, key)]
       \/ response' = [NoResponse EXCEPT !.status = 200]
       \/ \E st \in OtherStatuses, js \in BOOLEAN :
             response' = [NoResponse EXCEPT !.status = st, !.is_json = js,
                             !.data = IF js THEN envelope ELSE <<>>]
    /\ log' = <<"request">>
    /\ pc' = "received"
    /\ UNCHANGED <<key, pubkey, pairs, envelope, vcall, outcome, datadict, ret, message>>

\* HTTPAdapter.send raises: the one request of a client call met a
\* RequestException (no connection, timeout), which send turns into
\* CsobBaseException; the client method ends with it
SendFails ==
    /\ pc = "signed"
    /\ IsResponse(pairs)
    /\ log' = <<"request">>
    /\ outcome' = "CsobBaseException"
    /\ message' = "RequestException"
    /\ pc' = "failed"
    /\ UNCHANGED <<key, pubkey, pairs, envelope, vcall, response, datadict, ret>>

\* utils.validate_response(response, pubkey)
ValidateResponse ==
    /\ pc = "received"
    /\ LET r == validate_response(response, pubkey)
       IN  /\ response' = r.response
           /\ outcome' = r.outcome
           /\ message' = r.message
           /\ log' = log \o r.steps
    /\ pc' = "validated"
    /\ UNCHANGED <<key, pubkey, pairs, envelope, vcall, datadict, ret>>

\* CsobClient.gateway_return(datadict)
GatewayReturn ==
    /\ pc = "signed"
    /\ IsResponse(pairs)
    /\ \E t \in Tampers :
          /\ datadict' = BodyOf(envelope, t)
          /\ ret' = gateway_return(BodyOf(envelope, t), pubkey)
    /\ pc' = "returned"
    /\ UNCHANGED <<key, pubkey, pairs, envelope, vcall, response, outcome, message, log>>

Next == MkPayload \/ Verify \/ Receive \/ SendFails \/ ValidateResponse \/ GatewayReturn

Spec == Init /\ [][Next]_vars

(* ------------------------------------------------------------------ *)
(* properties                                                          *)
(* ------------------------------------------------------------------ *)
\* the signer's and the verifier's keys are one key pair
KeysMatch ==
    ImportKey(key).ok /\ ImportKey(pubkey).ok /\ ImportKey(key).pair = ImportKey(pubkey).pair

\* the body was decoded: raise_for_status let the status pass and the body
\* is valid json
Decoded == ~(response.status >= 400 /\ response.status < 600) /\ response.is_json

\* the elements of `extensions` tagged maskCln or maskClnRP, in body order
Recognised(data) ==
    IF Has(data, "extensions")
    THEN SelectSeq(Get(data, "extensions").items,
                   LAMBDA e : Get(e, "extension") \in {StrV("maskCln"), StrV("maskClnRP")})
    ELSE <<>>

\* what verify answers for the top-level payload of a decoded, signed body
TopVerify(data) ==
    verify(Project(Del(data, "signature"), RESPONSE_KEYS), Get(data, "signature"), pubkey)

\* what verify answers for one recognised extension element
ExtVerify(e) == verify(Project(e, maskclnrp_keys), Get(e, "signature"), pubkey)

\* C1: validate_response returns normally only if verify answered true for
\* the projected top-level payload and for every element of `extensions`
\* tagged maskCln or maskClnRP; when verify answers false for the top-level
\* payload, or for a recognised extension, the call ends in CsobVerifyError.
C1_FailClosed ==
    pc = "validated" =>
        /\ outcome = "ok" =>
              /\ Decoded /\ Has(response.data, "signature")
              /\ TopVerify(response.data) = "True"
              /\ \A i \in 1..Len(Recognised(response.data)) :
                    ExtVerify(Recognised(response.data)[i]) = "True"
        /\ (Decoded /\ Has(response.data, "signature")
              /\ TopVerify(response.data) = "False") => outcome = "CsobVerifyError"
        /\ (Decoded /\ Has(response.data, "signature")
              /\ TopVerify(response.data) = "True"
              /\ \E i \in 1..Len(Recognised(response.data)) :
                    ExtVerify(Recognised(response.data)[i]) = "False")
           => outcome = "CsobVerifyError"

\* a response whose top-level payload verifies and whose second recognised
\* extension is forged was rejected
C1_Witness ==
    /\ pc = "validated" /\ outcome = "CsobVerifyError"
    /\ TopVerify(response.data) = "True"
    /\ Len(Recognised(response.data)) = 2
    /\ ExtVerify(Recognised(response.data)[1]) = "True"
    /\ ExtVerify(Recognised(response.data)[2]) = "False"

\* verify was called with the payload and the signature mk_payload produced
Unchanged ==
    /\ pc = "verified"
    /\ vcall.payload = Del(envelope, "signature")
    /\ vcall.signature = Get(envelope, "signature")

\* C2: round trip: verify(P, sign(P, priv), pub) is true when priv and pub
\* are a matching key pair and P is unchanged.
C2_RoundTrip == (Unchanged /\ KeysMatch) => vcall.result = "True"

\* a payload with a cart, a customer block, text outside ASCII, a 0 and a
\* false went round
C2_Witness ==
    /\ Unchanged /\ KeysMatch /\ vcall.result = "True"
    /\ Has(vcall.payload, "cart") /\ Has(vcall.payload, "customer")
    /\ Has(vcall.payload, "merchantData")
    /\ Get(vcall.payload, "totalAmount") = IntV(0)
    /\ Get(vcall.payload, "closePayment") = BoolV(FALSE)

\* verify was called with the signed payload but for the value of field i,
\* and with the signature of the signed payload
ReplacedAt(i) ==
    LET P == Del(envelope, "signature")
    IN  /\ pc = "verified"
        /\ vcall.signature = Get(envelope, "signature")
        /\ Len(vcall.payload) = Len(P)
        /\ i \in 1..Len(P)
        /\ vcall.payload[i][2] # P[i][2]
        /\ \A j \in 1..Len(P) : j # i => vcall.payload[j] = P[j]

\* C3 (as stated): replacing the value of any single field by a different
\* value, the signature unchanged, makes verify return false.
C3_Sensitivity ==
    \A i \in 1..Len(vcall.payload) :
        (ReplacedAt(i) /\ KeysMatch) => vcall.result = "False"

\* what a field alone contributes to the message: the message of the
\* payload that holds only this field
Segment(k, v) == MsgText(<< <<k, v>> >>)

\* C3 (amended): replacing the value of a single field by a different value
\* that is not null makes verify return false exactly when the two values
\* contribute different text to the message; values of different type with
\* the same text (0 and "0", true and "true") are accepted for one another.
C3_SensitivityByText ==
    \A i \in 1..Len(vcall.payload) :
        (ReplacedAt(i) /\ KeysMatch /\ vcall.payload[i][2] # NoneV) =>
            LET k == vcall.payload[i][1]
                old == Get(envelope, k)
                new == vcall.payload[i][2]
            IN  /\ vcall.result \in {"True", "False"}
                /\ vcall.result = "False" <=> Segment(k, old) # Segment(k, new)

\* an integer 0 replaced after signing by the text "0" was accepted
C3_Witness ==
    \E i \in 1..Len(vcall.payload) :
        /\ ReplacedAt(i) /\ KeysMatch
        /\ Get(envelope, vcall.payload[i][1]) = IntV(0)
        /\ vcall.payload[i][2] = StrV("0")
        /\ vcall.result = "True"

\* C4: mk_payload returns exactly the pairs whose value is not None, '' or
\* an empty sequence, in the caller's order, pairs with 0 or False kept,
\* then one last field `signature`: the signature of the canonical message
\* of those fields, the signature field itself not being signed.
C4_MkPayload ==
    pc # "idle" =>
        LET kept == SelectSeq(pairs, LAMBDA p :
                        p[2] # NoneV /\ p[2] # StrV("") /\ p[2] # ListV(<<>>))
            n == Len(kept)
        IN  /\ Len(envelope) = n + 1
            /\ SubSeq(envelope, 1, n) = kept
            /\ envelope[n + 1][1] = "signature"
            /\ envelope[n + 1][2] =
                  B64(RSASign(ImportKey(key), SHA256(Utf8(MsgText(kept)))))
            /\ \A i \in 1..Len(pairs) :
                  pairs[i][2] \in {IntV(0), BoolV(FALSE)} =>
                      \E j \in 1..n : envelope[j] = pairs[i]

\* pairs with None, '' and an empty cart among them were dropped, those with
\* 0 and False kept
C4_Witness ==
    /\ pc = "signed" /\ Has(pairs, "cart")
    /\ Get(pairs, "cart") = ListV(<<>>) /\ Get(pairs, "customer") = NoneV
    /\ Get(pairs, "merchantData") = StrV("")
    /\ Get(pairs, "totalAmount") = IntV(0) /\ Get(pairs, "closePayment") = BoolV(FALSE)
    /\ KeysOf(envelope) = <<"merchantId", "totalAmount", "closePayment", "signature">>

\* C5 (as stated): a field given to the message builder with an empty value
\* (None, '', an empty sequence) is treated as absent: the message is that
\* of the payload without its empty fields, no separator left behind.
C5_EmptyIsAbsent ==
    pc = "verified" =>
        vcall.msg = mk_msg_for_sign(SelectSeq(vcall.payload, LAMBDA p : ~IsEmpty(p[2])))

\* C6 (as stated): verify never raises; it answers true or false.
C6_VerifyNeverRaises ==
    pc = "verified" => vcall.result \in {"True", "False"}

\* C7 (as stated): a decoded body without a `signature` field, and a
\* gateway-return mapping without one, end in CsobVerifyError.
C7_MissingSignature ==
    /\ (pc = "validated" /\ Decoded /\ ~Has(response.data, "signature"))
          => outcome = "CsobVerifyError"
    /\ (pc = "returned" /\ ~Has(datadict, "signature"))
          => ret.outcome = "CsobVerifyError"

\* the fields of a body the validator reads: the response vocabulary, the
\* signature and the extensions array
KnownField(k) ==
    k \in {RESPONSE_KEYS[i] : i \in 1..Len(RESPONSE_KEYS)} \cup {"signature", "extensions"}

\* the same body with its unknown fields removed, changed, one more added,
\* and with its fields in the opposite order
UnknownVariants(data) ==
    { SelectSeq(data, LAMBDA p : KnownField(p[1])),
      [i \in 1..Len(data) |->
          IF KnownField(data[i][1]) THEN data[i] ELSE <<data[i][1], IntV(0)>>],
      << <<"bar", StrV("y")>> >> \o data,
      Reverse(data) }

\* C8: the payload validate_response exposes holds exactly the fields of
\* RESPONSE_KEYS present in the body, in the order of RESPONSE_KEYS whatever
\* the order in the body, with the body's values; and how the validation
\* ends does not change when unknown fields of the body are added, removed
\* or changed, nor with the order of the body.
C8_Projection ==
    (pc = "validated" /\ Decoded) =>
        /\ response.has_payload =>
              /\ KeysOf(response.payload) =
                    SelectSeq(RESPONSE_KEYS, LAMBDA k : Has(response.data, k))
              /\ \A i \in 1..Len(response.payload) :
                    response.payload[i][2] = Get(response.data, response.payload[i][1])
        /\ \A d \in UnknownVariants(response.data) :
              LET r == validate_response([Untouched(response) EXCEPT !.data = d], pubkey)
              IN  r.outcome = outcome /\ r.response.payload = response.payload

\* a body with an unknown field was verified
C8_Witness ==
    /\ pc = "validated" /\ outcome = "ok"
    /\ Has(response.data, "foo")
    /\ Len(response.payload) >= 4

\* C9: on success the extension list holds, in body order, one entry per
\* element tagged maskCln or maskClnRP: the element's present fields among
\* (extension, dttm, maskedCln, expiration, longMaskedCln), in that order;
\* elements of another type are skipped, neither verified nor an error.
C9_Extensions ==
    (pc = "validated" /\ Decoded /\ Has(response.data, "signature")
        /\ Has(response.data, "extensions")) =>
        LET rec == Recognised(response.data)
            fixed == <<"extension", "dttm", "maskedCln", "expiration", "longMaskedCln">>
            entry(e) ==
                LET ks == SelectSeq(fixed, LAMBDA k : Has(e, k))
                IN  [j \in 1..Len(ks) |-> <<ks[j], Get(e, ks[j])>>]
        IN  /\ (TopVerify(response.data) = "True"
                  /\ \A i \in 1..Len(rec) : ExtVerify(rec[i]) = "True")
               => outcome = "ok"
            /\ outcome = "ok" =>
                  response.extensions = [i \in 1..Len(rec) |-> entry(rec[i])]

\* a response with a recognised element, delivered without expiration, and
\* an element of another type, which carries no signature, was accepted
C9_Witness ==
    /\ pc = "validated" /\ outcome = "ok" /\ Has(response.data, "extensions")
    /\ Len(Get(response.data, "extensions").items) = 2
    /\ Len(Recognised(response.data)) = 1
    /\ Len(response.extensions) = 1
    /\ Len(response.extensions[1]) = 4

\* C10 (as stated): after validate_response the payload holds resultCode and
\* paymentStatus as integers, also when the body delivered them as text.
C10_Coerced ==
    (pc = "validated" /\ outcome = "ok") =>
        \A k \in {"resultCode", "paymentStatus"} :
            Has(response.payload, k) => Get(response.payload, k).t = "int"

\* C10 (amended): validate_response hands resultCode and paymentStatus to
\* the caller as the body delivered them: a text stays a text, an integer an
\* integer.
C10_AsDelivered ==
    (pc = "validated" /\ outcome = "ok") =>
        \A k \in {"resultCode", "paymentStatus"} :
            Has(response.data, k) =>
                /\ Has(response.payload, k)
                /\ Get(response.payload, k) = Get(response.data, k)

\* a body that delivers resultCode as text was accepted with the text
C10_Witness ==
    /\ pc = "validated" /\ outcome = "ok"
    /\ Has(response.data, "resultCode") /\ Get(response.data, "resultCode") = StrV("0")
    /\ Get(response.payload, "resultCode") = StrV("0")

\* C11 (as stated): gateway_return projects the mapping onto RESPONSE_KEYS
\* in their order with resultCode and paymentStatus converted to integers and
\* the other fields as received; when the mapping's signature is valid for
\* these fields it returns them, and in every other case it raises
\* CsobVerifyError and returns nothing.
C11_GatewayReturn ==
    pc = "returned" =>
        LET ks == SelectSeq(RESPONSE_KEYS, LAMBDA k : Has(datadict, k))
            o == [i \in 1..Len(ks) |->
                    <<ks[i], IF ks[i] \in {"resultCode", "paymentStatus"}
                             THEN PyInt(Get(datadict, ks[i])).v
                             ELSE Get(datadict, ks[i])>>]
            valid == /\ Has(datadict, "signature")
                     /\ verify(o, Get(datadict, "signature"), pubkey) = "True"
        IN  IF valid
            THEN /\ ret = [outcome |-> "ok", value |-> o]
                 /\ \A k \in {"resultCode", "paymentStatus"} :
                       Has(o, k) => Get(o, k).t = "int"
            ELSE ret = [outcome |-> "CsobVerifyError", value |-> <<>>]

\* the steps of a client call hold the step st
Did(st) == \E i \in 1..Len(log) : log[i] = st

\* C12: a response with a 2xx status whose body is no valid json makes
\* validate_response raise CsobJSONDecodeError('Cannot decode JSON in
\* response'), not the verification nor the transport error, and verify is
\* not called for it.
C12_NotJson ==
    (pc = "validated" /\ response.status >= 200 /\ response.status < 300
        /\ ~response.is_json) =>
        /\ outcome = "CsobJSONDecodeError"
        /\ outcome \notin {"CsobVerifyError", "CsobBaseException"}
        /\ message = "Cannot decode JSON in response"
        /\ ~Did("verify")

\* a 200 response that is no json was given to validate_response, which
\* called json() on it
C12_Witness ==
    /\ pc = "validated" /\ response.status = 200 /\ ~response.is_json
    /\ log = <<"request", "raise_for_status", "json">>

\* the number of HTTP requests a client call issued
Requests == Len(SelectSeq(log, LAMBDA st : st = "request"))

\* the call failed in the transport: CsobBaseException, raised before the
\* body was decoded or a signature verified, after one request
FailedInTransport ==
    /\ outcome = "CsobBaseException"
    /\ ~Did("json") /\ ~Did("verify")
    /\ Requests = 1

\* C13 (as stated): a connection failure or a status that is not 2xx makes
\* the client call fail with CsobBaseException before the body is decoded
\* or verified, whatever the body holds, and after exactly one request.
C13_TransportFirst ==
    (pc = "failed"
        \/ (pc = "validated" /\ ~(response.status >= 200 /\ response.status < 300)))
    => FailedInTransport

\* C13 (amended): a connection failure or a status from 400 to 599 makes
\* the client call fail with CsobBaseException before the body is decoded
\* or verified, whatever the body holds; a response with any other status
\* is decoded and verified as one with status 200 is; and every client call
\* issues exactly one request.
C13_TransportFirstOnError ==
    /\ (pc = "failed"
          \/ (pc = "validated" /\ response.status >= 400 /\ response.status < 600))
       => FailedInTransport
    /\ (pc = "validated" /\ response.status < 400) =>
          LET r == validate_response([Untouched(response) EXCEPT !.status = 200], pubkey)
          IN  /\ r.outcome = outcome
              /\ r.response.payload = response.payload
              /\ <<"request">> \o r.steps = log
    /\ pc \in {"received", "failed", "validated"} => Requests = 1

\* a response with status 500 and a body that is validly signed json was
\* turned down after raise_for_status
C13_Witness ==
    /\ pc = "validated" /\ response.status = 500 /\ response.is_json
    /\ KeysMatch /\ TopVerify(response.data) = "True"
    /\ outcome = "CsobBaseException"
    /\ log = <<"request", "raise_for_status">>

\* the text a scalar contributes: a text itself, an integer its decimal
\* digits, a bool the lowercase word
Text(v) ==
    CASE v.t = "str" -> v.s
      [] v.t = "int" -> NatToStr(v.i)
      [] v.t = "bool" -> IF v.b THEN "true" ELSE "false"

\* the values of the items of a cart, item after item, each item's name,
\* quantity and amount in this order, pipe-joined
CartText(cart) ==
    Join("|", Concat([i \in 1..Len(cart.items) |->
        <<Text(Get(cart.items[i], "name")), Text(Get(cart.items[i], "quantity")),
          Text(Get(cart.items[i], "amount"))>>]))

\* the payload with the text in the place of the cart, as a field the
\* builder takes for text and does not walk through as a list of items
WithCartText(payload) ==
    [i \in 1..Len(payload) |->
        IF payload[i][1] = "cart"
        THEN <<"cart as text", StrV(CartText(payload[i][2]))>> ELSE payload[i]]

\* the payload verify was called with holds a cart with items
CartPresent ==
    /\ pc = "verified" /\ Has(vcall.payload, "cart")
    /\ Get(vcall.payload, "cart").t = "list"
    /\ Get(vcall.payload, "cart").items # <<>>

\* C14: the canonical message of a payload with a cart is the canonical
\* message of the payload that holds, in the place of the cart, the
\* pipe-join of the values of all items, items in list order, each item's
\* fields in their order (name, quantity, amount), no key of an item in it.
C14_CartJoin ==
    CartPresent =>
        /\ vcall.msg = mk_msg_for_sign(WithCartText(vcall.payload))
        /\ Segment("cart", Get(vcall.payload, "cart")) =
              CartText(Get(vcall.payload, "cart"))

\* a cart of two different items between other fields went into a message
C14_Witness ==
    /\ CartPresent
    /\ Len(Get(vcall.payload, "cart").items) = 2
    /\ Get(vcall.payload, "cart").items[1] # Get(vcall.payload, "cart").items[2]
    /\ \E i \in 2..(Len(vcall.payload) - 1) : vcall.payload[i][1] = "cart"
    /\ vcall.result = "True"

\* the values of the fields of d named in ks, those present only, in the
\* order of ks, pipe-joined
SegmentText(d, ks) ==
    LET present == SelectSeq(ks, LAMBDA k : Has(d, k))
    IN  Join("|", [i \in 1..Len(present) |-> Text(Get(d, present[i]))])

\* the three segments of a customer, those that are not empty, pipe-joined
CustomerText(c) ==
    LET own == SegmentText(c.pairs, <<"name", "email", "mobilePhone">>)
        account == IF Has(c.pairs, "account")
                   THEN SegmentText(Get(c.pairs, "account").pairs,
                                    <<"createdAt", "changedAt">>)
                   ELSE ""
        login == IF Has(c.pairs, "login")
                 THEN SegmentText(Get(c.pairs, "login").pairs, <<"auth", "authAt">>)
                 ELSE ""
    IN  Join("|", SelectSeq(<<own, account, login>>, LAMBDA t : t # ""))

\* the same customer as a caller who wrote every object in the opposite
\* order supplies it
Reordered(c) ==
    DictV(Reverse([i \in 1..Len(c.pairs) |->
        IF c.pairs[i][2].t = "dict"
        THEN <<c.pairs[i][1], DictV(Reverse(c.pairs[i][2].pairs))>>
        ELSE c.pairs[i]]))

\* the payload verify was called with holds a customer
CustomerPresent ==
    /\ pc = "verified" /\ Has(vcall.payload, "customer")
    /\ Get(vcall.payload, "customer").t = "dict"

\* C15: a customer contributes the join of three segments: its own fields
\* (name, email, mobilePhone), those of `account` (createdAt, changedAt),
\* those of `login` (auth, authAt); in a segment the values of the present
\* fields are pipe-joined in this order, whatever the order the caller
\* supplied them in; a segment without text leaves no separator.
C15_CustomerSegments ==
    CustomerPresent =>
        LET c == Get(vcall.payload, "customer")
        IN  /\ Segment("customer", c) = CustomerText(c)
            /\ Segment("customer", Reordered(c)) = CustomerText(c)
            /\ vcall.msg = mk_msg_for_sign(
                  [i \in 1..Len(vcall.payload) |->
                      IF vcall.payload[i][1] = "customer"
                      THEN <<"customer as text", StrV(CustomerText(c))>>
                      ELSE vcall.payload[i]])

\* a customer without a field of its own, supplied with login before
\* account and changedAt before createdAt, went into a message
C15_Witness ==
    /\ CustomerPresent
    /\ KeysOf(Get(vcall.payload, "customer").pairs) = <<"login", "account">>
    /\ KeysOf(Get(Get(vcall.payload, "customer").pairs, "account").pairs)
          = <<"changedAt", "createdAt">>
    /\ Segment("customer", Get(vcall.payload, "customer")) = "2023|false|true"

\* the lowercase word of a bool
Word(b) == IF b THEN "true" ELSE "false"

\* the text a scalar contributes, with `true` / `false` for a bool and the
\* digits 0 / 1 for the integers 0 and 1
Lowercase(v) ==
    CASE v.t = "bool" -> Word(v.b)
      [] v = IntV(0) -> "0"
      [] v = IntV(1) -> "1"
      [] OTHER -> PyStr(v)

\* C16: a bool contributes the lowercase word true or false, not 1 or 0 and
\* not True or False, where it stands at top level, in an item of the cart
\* or in the customer, account or login object; the integers 0 and 1
\* contribute 0 and 1.
C16_LowercaseBool ==
    pc = "verified" =>
        /\ \A i \in 1..Len(vcall.payload) :
              LET k == vcall.payload[i][1]
                  v == vcall.payload[i][2]
              IN  /\ v.t = "bool" =>
                        /\ Segment(k, v) = Word(v.b)
                        /\ Segment(k, v) \notin {"1", "0", "True", "False"}
                  /\ v \in {IntV(0), IntV(1)} => Segment(k, v) = Lowercase(v)
        /\ CartPresent =>
              \A n \in 1..Len(Get(vcall.payload, "cart").items) :
                  LET item == Get(vcall.payload, "cart").items[n]
                  IN  Segment("cart", ListV(<<item>>)) =
                          Join("|", [j \in 1..Len(item) |-> Lowercase(item[j][2])])
        /\ CustomerPresent =>
              LET c == Get(vcall.payload, "customer").pairs
                  sub(k) == IF Has(c, k) THEN Get(c, k).pairs ELSE <<>>
                  \* the scalars of the three objects in the order of the message
                  all == [i \in 1..3 |-> GetOr(c, customer_keys[i], [t |-> "absent"])]
                         \o [i \in 1..2 |->
                                GetOr(sub("account"), account_keys[i], [t |-> "absent"])]
                         \o [i \in 1..2 |->
                                GetOr(sub("login"), login_keys[i], [t |-> "absent"])]
                  there == SelectSeq(all, LAMBDA v : v.t # "absent")
              IN  Segment("customer", DictV(c)) =
                      Join("|", [j \in 1..Len(there) |-> Lowercase(there[j])])

\* a message was built of a payload with a bool at top level, one in an
\* item of the cart and one in the account and the login of the customer,
\* beside the integers 0 and 1
C16_Witness ==
    /\ CartPresent /\ CustomerPresent
    /\ Get(vcall.payload, "closePayment") = BoolV(TRUE)
    /\ Get(vcall.payload, "totalAmount") = IntV(1)
    /\ \E n \in 1..Len(Get(vcall.payload, "cart").items) :
          /\ Get(Get(vcall.payload, "cart").items[n], "quantity") = BoolV(TRUE)
          /\ Get(Get(vcall.payload, "cart").items[n], "amount") = IntV(0)
    /\ Has(Get(vcall.payload, "customer").pairs, "login")
    /\ Get(Get(Get(vcall.payload, "customer").pairs, "login").pairs, "auth") = BoolV(TRUE)
    /\ vcall.msg = Utf8("MERCHANT|1|true|gift|true|0|2023|false|true")

\* C17 (as stated): whenever validate_response ends in an error, the
\* response object has been given neither a `payload` attribute nor an
\* `extensions` list.
C17_NothingAttached ==
    (pc = "validated" /\ outcome # "ok") =>
        ~response.has_payload /\ ~response.has_extensions

=============================================================================
